---- MODULE Spec2Model ----
(***************************************************************************)
(* Model of the streaming true-peak detector of src/src/true_peak.rs:      *)
(* TruePeak::new (tier selection, scratch sizing) and TruePeak::process    *)
(* (contract assertions, oversampling into the scratch buffer, signed      *)
(* running maximum per channel).                                           *)
(*                                                                         *)
(* Sample values (f64 in the source) are finite fixed-point amplitudes,    *)
(* modelled as integers; NaN and infinities are outside the model.         *)
(* A u32 is a pair of 16-bit limbs [hi, lo] so that the whole 32-bit range *)
(* of `rate` is representable.                                             *)
(* crate::interp::Interp lies outside true_peak.rs; it is modelled from   *)
(* section 4.3 of the specification as a stateful polyphase FIR with one   *)
(* delay line per channel.                                                 *)
(***************************************************************************)
EXTENDS Integers, Sequences, FiniteSets, TLC

\* ---------------------------------------------------------------- bounds
MaxChannels == 2    \* channel counts 1..MaxChannels
MaxSrcLen   == 3    \* sources of every content up to this total length
MaxIndex    == 1    \* src_index in 0..MaxIndex
MaxFrames   == 3    \* frames in 0..MaxFrames for short sources
MaxCalls    == 2    \* process calls per detector

SampleVals  == {-1, 0, 1}          \* amplitudes of source samples
PeakInit    == {-1, 0}             \* values the caller seeds peaks with
LongStrides == {5, 8}              \* per-channel strides of "full signal" sources
LongFrames  == {0, 1, 4, 5}        \* window sizes tried on full-signal sources

\* ------------------------------------------------------------ u32 values
Limb == 65536

U32(h, l) == [hi |-> h, lo |-> l]

\* value of a u32 known to be below 2^31
U32Val(r) == r.hi * Limb + r.lo

\* r < n, for a constant n < 2^31
U32Lt(r, n) == r.hi < 32768 /\ U32Val(r) < n

\* rate + 5 in u32 arithmetic: the wrapped sum, and whether it overflowed
U32Add5(r) ==
  LET l == r.lo + 5
      h == r.hi + (l \div Limb)
  IN  [sum |-> U32(h % Limb, l % Limb), overflow |-> h >= Limb]

\* r / 10 for a u32; the quotient is below 2^29
U32Div10(r) ==
  (r.hi \div 10) * Limb + (((r.hi % 10) * Limb + r.lo) \div 10)

\* -------------------------------------------------------------- Interp
\* length of each channel's delay line (current sample and one past sample)
Delay == 2

\* coefficient of phase f on the sample k frames back: linear interpolation
\* between the previous and the current sample, in units of 1/factor
Coeff(factor, f, k) == IF k = 0 THEN f ELSE IF k = 1 THEN factor - f ELSE 0

InterpNew(factor, chans) ==
  [factor |-> factor, z |-> [c \in 1..chans |-> [k \in 1..Delay |-> 0]]]

\* the sample of channel c (0-based) that is j frames into the window;
\* j < 0 reaches into the delay line left by earlier calls
InterpSample(z, src, stride, src_index, c, j) ==
  IF j >= 0 THEN src[c * stride + src_index + j + 1] ELSE z[c + 1][-j]

RECURSIVE InterpAcc(_, _, _, _, _, _, _, _, _)
InterpAcc(z, src, stride, src_index, factor, c, t, f, k) ==
  IF k = Delay THEN 0
  ELSE Coeff(factor, f, k) * InterpSample(z, src, stride, src_index, c, t - k)
       + InterpAcc(z, src, stride, src_index, factor, c, t, f, k + 1)

\* Interp::process: the planar oversampled block, frames * chans * factor long
InterpOut(ip, src, chans, src_index, frames) ==
  LET stride == Len(src) \div chans
      n == frames * ip.factor
  IN  [i \in 1..(chans * n) |->
         LET c == (i - 1) \div n
             t == ((i - 1) % n) \div ip.factor
             f == (i - 1) % ip.factor
         IN  InterpAcc(ip.z, src, stride, src_index, ip.factor, c, t, f, 0)]

\* Interp::process: the delay lines after the last frame of the window
InterpZ(ip, src, chans, src_index, frames) ==
  LET stride == Len(src) \div chans
  IN  [c \in 1..chans |->
         [k \in 1..Delay |->
            InterpSample(ip.z, src, stride, src_index, c - 1, frames - k)]]

\* ------------------------------------------------------------ TruePeak
VARIABLES
  rate,           \* argument of TruePeak::new (u32)
  channels,       \* argument of TruePeak::new
  result,         \* "pending" | "Some" | "None" | "panic" : outcome of new
  overflowed,     \* whether rate + 5 exceeded the u32 range in new
  tp,             \* the detector: interp, rate, channels, buffer_output
  peaks,          \* the caller's accumulator array
  calls,          \* number of process calls made
  last            \* the most recent process call: arguments, state on entry, outcome

vars == <<rate, channels, result, overflowed, tp, peaks, calls, last>>

NoTP == [interp |-> [factor |-> 0, z |-> <<>>], rate |-> U32(0, 0), channels |-> 0,
         buffer_output |-> 0]

NoCall == [outcome |-> "none", src |-> <<>>, src_index |-> 0, frames |-> 0,
           peaks |-> <<>>, z |-> <<>>, block |-> <<>>, again |-> FALSE,
           block_prev |-> <<>>]

\* InterpFactor with the first tier closed at 96000 (<= for <)
InterpFactorInclusive(r) ==
  IF U32Lt(r, 96001) THEN 4 ELSE IF U32Lt(r, 192000) THEN 2 ELSE 0

\* the oversampling factor `new` selects, 0 for an unsupported rate
InterpFactor(r) ==
  IF U32Lt(r, 96000) THEN 4 ELSE IF U32Lt(r, 192000) THEN 2 ELSE 0

\* BufferLen without the oversampling factor (the length of buffer_input)
BufferLenInput(samples_in_100ms, chans, factor) ==
  4 * samples_in_100ms * chans

\* buffer_output.len(): 4 * samples_in_100ms * channels * interp_factor
BufferLen(samples_in_100ms, chans, factor) ==
  (4 * samples_in_100ms * chans) * factor

\* TruePeak::new. rate + 5 is evaluated first: a build with overflow checks
\* panics when it leaves the u32 range, a build without them wraps.
New ==
  /\ result = "pending"
  /\ LET add == U32Add5(rate)
         samples_in_100ms == U32Div10(add.sum)
         factor == InterpFactor(rate)
     IN  /\ overflowed' = add.overflow
         /\ \E overflow_checks \in BOOLEAN :
              IF add.overflow /\ overflow_checks
              THEN /\ result' = "panic"
                   /\ tp' = tp
              ELSE IF factor = 0
              THEN /\ result' = "None"
                   /\ tp' = tp
              ELSE /\ result' = "Some"
                   /\ tp' = [interp |-> InterpNew(factor, channels),
                             rate |-> rate,
                             channels |-> channels,
                             buffer_output |-> BufferLen(samples_in_100ms, channels, factor)]
  /\ UNCHANGED <<rate, channels, peaks, calls, last>>

Abs(v) == IF v < 0 THEN -v ELSE v

\* ScanChunk comparing magnitudes instead of signed values
RECURSIVE ScanChunkAbs(_, _)
ScanChunkAbs(o, peak) ==
  IF o = <<>> THEN peak
  ELSE ScanChunkAbs(Tail(o), IF Abs(Head(o)) > peak THEN Abs(Head(o)) ELSE peak)

\* ScanChunk starting from 0 instead of from the accumulator
RECURSIVE ScanChunkFresh(_, _)
ScanChunkFresh(o, peak) ==
  IF o = <<>> THEN 0
  ELSE LET m == ScanChunkFresh(Tail(o), peak)
       IN  IF Head(o) > m THEN Head(o) ELSE m

\* ScanChunk comparing every value with the accumulator as it was on entry
\* instead of with the running maximum: the last value above it is kept
ScanChunkStale(o, peak) ==
  LET above == {k \in 1..Len(o) : o[k] > peak}
  IN  IF above = {} THEN peak
      ELSE o[CHOOSE k \in above : \A m \in above : m <= k]

\* ScanChunk storing every value it visits (the comparison dropped)
RECURSIVE ScanChunkLast(_, _)
ScanChunkLast(o, peak) ==
  IF o = <<>> THEN peak ELSE ScanChunkLast(Tail(o), Head(o))

\* the inner loop of the scan: the running maximum of one chunk, compared signed
RECURSIVE ScanChunk(_, _)
ScanChunk(o, peak) ==
  IF o = <<>> THEN peak
  ELSE ScanChunk(Tail(o), IF Head(o) > peak THEN Head(o) ELSE peak)

\* Scan with every chunk starting at the head of the block
ScanFromHead(block, size, pk) ==
  [c \in 1..Len(pk) |->
     IF c <= Len(block) \div size
     THEN ScanChunk(SubSeq(block, 1, c * size), pk[c])
     ELSE pk[c]]

\* chunks_exact(size) of block, zipped with peaks: chunk i updates peaks[i]
Scan(block, size, pk) ==
  [c \in 1..Len(pk) |->
     IF c <= Len(block) \div size
     THEN ScanChunk(SubSeq(block, (c - 1) * size + 1, c * size), pk[c])
     ELSE pk[c]]

Panics == {"assert58", "assert59", "assert60", "slice74", "chunks81"}

\* EarlyReturn that never returns early
EarlyReturnNever(frames) == FALSE

\* line 62: the call returns before it reaches the interpolator
EarlyReturn(frames) == frames = 0

\* the record of a call: its arguments, the peaks and the delay lines on
\* entry, the region buffer_output[..n] as Interp::process left it (empty
\* when the call did not reach the interpolator), and whether the call
\* repeats the arguments of the call before it (and then that call's region)
Call(outcome, src, src_index, frames, block, again) ==
  [outcome |-> outcome, src |-> src, src_index |-> src_index, frames |-> frames,
   peaks |-> peaks, z |-> tp.interp.z, block |-> block, again |-> again,
   block_prev |-> IF again THEN last.block ELSE <<>>]

\* TruePeak::process. tp.buffer_output is the length of the scratch buffer;
\* its contents are written by Interp::process and read by the scan within
\* one call and are never read across calls. The outcomes are the failed
\* assertion (by line), the early return, the panic of the slice expression
\* of line 74 when the region exceeds the buffer, and the panic of
\* chunks_exact on a chunk size of 0 (Interp::process has then run on zero
\* frames and left its delay lines as they were).
Process(src, src_index, frames, again) ==
  /\ result = "Some"
  /\ calls < MaxCalls
  /\ calls' = calls + 1
  /\ LET src_stride == Len(src) \div tp.channels
         interp_factor == tp.interp.factor
         n == frames * tp.channels * interp_factor
         out == InterpOut(tp.interp, src, tp.channels, src_index, frames)
         returns(why) ==
           /\ last' = Call(why, src, src_index, frames, <<>>, again)
           /\ UNCHANGED <<tp, peaks>>
     IN  IF ~(src_index + frames <= src_stride) THEN returns("assert58")
         ELSE IF ~(src_stride * interp_factor <= tp.buffer_output) THEN returns("assert59")
         ELSE IF ~(Len(peaks) = tp.channels) THEN returns("assert60")
         ELSE IF EarlyReturn(frames) THEN returns("noop")
         ELSE IF n > tp.buffer_output THEN returns("slice74")
         ELSE IF frames * interp_factor = 0 THEN returns("chunks81")
         ELSE /\ last' = Call("done", src, src_index, frames, out, again)
              /\ tp' = [tp EXCEPT
                     !.interp.z = InterpZ(tp.interp, src, tp.channels, src_index, frames)]
              /\ peaks' = Scan(out, frames * interp_factor, peaks)
  /\ UNCHANGED <<rate, channels, result, overflowed>>

\* ------------------------------------------------------------- inputs
\* rates around every tier boundary and at both ends of the u32 range
AllRates ==
  { U32(0, 1), U32(0, 4), U32(0, 5), U32(0, 14), U32(0, 48000),
    U32(1, 30463), U32(1, 30464), U32(2, 60927), U32(2, 60928),
    U32(65535, 65530), U32(65535, 65531), U32(65535, 65535) }

\* rates the streaming model runs on: a 4x and a 2x detector, a detector
\* with an empty scratch buffer, and an unsupported rate
ProcRates == { U32(0, 1), U32(0, 5), U32(1, 30464), U32(2, 60928) }

\* the accumulator arrays a caller starts with: all at one value, or the
\* first at 0 and the others below it
Peaks ==
  { [i \in 1..n |-> v] : n \in 1..MaxChannels, v \in PeakInit }
    \cup { [i \in 1..n |-> IF i = 1 THEN 0 ELSE -1] : n \in 1..MaxChannels }

\* short sources of every content
Sources == UNION { [1..n -> SampleVals] : n \in 0..MaxSrcLen }

\* a caller's full signal: constant content, long strides
LongSources ==
  { [i \in 1..(s * c) |-> v] : s \in LongStrides, c \in 1..MaxChannels, v \in SampleVals }

InitWith(rates) ==
  /\ rate \in rates
  /\ channels \in 1..MaxChannels
  /\ result = "pending"
  /\ overflowed = FALSE
  /\ tp = NoTP
  /\ peaks \in Peaks
  /\ calls = 0
  /\ last = NoCall

Init == InitWith(ProcRates)

\* the caller passes a window of a short source
ProcessWindow ==
  /\ last.outcome = "none"
  /\ \E src \in Sources, src_index \in 0..MaxIndex, frames \in 0..MaxFrames :
        Process(src, src_index, frames, FALSE)

\* the caller passes a window of its full signal
ProcessFullSignal ==
  /\ last.outcome = "none"
  /\ \E src \in LongSources, src_index \in 0..MaxIndex, frames \in LongFrames :
        Process(src, src_index, frames, FALSE)

\* the caller processes the window of the call that just returned once more
Reprocess ==
  /\ last.outcome = "done"
  /\ ~last.again
  /\ Process(last.src, last.src_index, last.frames, TRUE)

\* the caller is done with the call that returned and moves on; a call that
\* panicked is never returned from
Return ==
  /\ last.outcome \in {"done", "noop"}
  /\ last' = NoCall
  /\ UNCHANGED <<rate, channels, result, overflowed, tp, peaks, calls>>

Next == New \/ ProcessWindow \/ ProcessFullSignal \/ Reprocess \/ Return

Spec == Init /\ [][Next]_vars

\* construction alone, over the whole range of rates
InitNew == InitWith(AllRates)

SpecNew == InitNew /\ [][New]_vars

\* ================================================================ claims
\* r >= n for a constant n < 2^31
U32Ge(r, n) == ~U32Lt(r, n)

Constructed == result # "pending"

\* samples_in_100ms of a supported rate
SamplesIn100ms == U32Div10(U32Add5(rate).sum)

\* ---------------------------------------------------------------- C1
\* C1: new selects the factor by the tier of rate alone: 4 for rates in
\* [1, 95999], 2 for rates in [96000, 191999], and no detector for rates of
\* 192000 and above, whatever the channel count.
C1_TierByRate ==
  Constructed =>
    /\ (U32Ge(rate, 1) /\ U32Lt(rate, 96000)) =>
          (result = "Some" /\ tp.interp.factor = 4)
    /\ (U32Ge(rate, 96000) /\ U32Lt(rate, 192000)) =>
          (result = "Some" /\ tp.interp.factor = 2)
    /\ U32Ge(rate, 192000) => (result # "Some" /\ tp = NoTP)

C1_Witness ==
  /\ result = "Some"
  /\ rate = U32(1, 30464)
  /\ channels = MaxChannels
  /\ tp.interp.factor = 2

\* ---------------------------------------------------------------- C2
\* C2: for every u32 rate of 192000 and above, new returns None, and
\* rate + 5 neither overflows nor aborts.
C2_NoneWithoutOverflow ==
  (Constructed /\ U32Ge(rate, 192000)) => (result = "None" /\ ~overflowed)

\* ---------------------------------------------------------------- C3
\* C3: no process call decreases an accumulator: after every call, each
\* element of peaks is at least what it was when the call was entered.
C3_Monotone ==
  last.outcome # "none" =>
    /\ Len(peaks) = Len(last.peaks)
    /\ \A c \in 1..Len(peaks) : peaks[c] >= last.peaks[c]

C3_Witness ==
  /\ last.outcome = "done"
  /\ calls = MaxCalls
  /\ \E c \in 1..Len(peaks) : peaks[c] > last.peaks[c]
  /\ \E k \in 1..Len(last.block) : last.block[k] < 0

\* -------------------------------------------- the most recent call, read back
LastStride == Len(last.src) \div tp.channels

LastChunk == last.frames * tp.interp.factor

\* channel c's sub-block (c from 1) of the region the interpolator wrote
SubBlock(c) == SubSeq(last.block, (c - 1) * LastChunk + 1, c * LastChunk)

Called == last.outcome # "none"

Accepted == last.outcome \in {"done", "noop"}

\* every sample of the window, in every channel, is zero
ZeroWindow ==
  \A c \in 0..(tp.channels - 1), j \in 0..(last.frames - 1) :
     last.src[c * LastStride + last.src_index + j + 1] = 0

\* the delay lines held only zeros when the call was entered
ZeroHistory ==
  \A c \in 1..Len(last.z), k \in 1..Delay : last.z[c][k] = 0

\* ---------------------------------------------------------------- C4
\* C4 as stated: every call with frames <= 4 * samples_in_100ms,
\* src_index + frames <= stride and peaks.len() == channels is accepted,
\* however long the source is.
C4_AnyStrideAccepted ==
  (/\ Called
   /\ last.frames <= 4 * SamplesIn100ms
   /\ last.src_index + last.frames <= LastStride
   /\ Len(last.peaks) = tp.channels)
  => Accepted

\* C4 amended: such a call is accepted, and its region lies inside the scratch
\* buffer, when in addition the stride of the source is within what line 59
\* asserts of it: stride <= 4 * samples_in_100ms * channels.
C4_FittingStrideAccepted ==
  (/\ Called
   /\ last.frames <= 4 * SamplesIn100ms
   /\ last.src_index + last.frames <= LastStride
   /\ LastStride <= 4 * SamplesIn100ms * tp.channels
   /\ Len(last.peaks) = tp.channels)
  => (Accepted /\ Len(last.block) <= tp.buffer_output)

C4_Witness ==
  /\ last.outcome = "done"
  /\ tp.channels >= 2
  /\ last.frames = 4 * SamplesIn100ms
  /\ LastStride = 4 * SamplesIn100ms * tp.channels
  /\ Len(last.block) = tp.buffer_output

\* ---------------------------------------------------------------- C5
\* C5: a call with frames = 0 that satisfies the contract changes nothing:
\* peaks and the interpolator are as on entry, and no region of the scratch
\* buffer is written.
C5_ZeroFramesNoop ==
  (/\ Called
   /\ last.frames = 0
   /\ last.src_index <= LastStride
   /\ LastStride * tp.interp.factor <= tp.buffer_output
   /\ Len(last.peaks) = tp.channels)
  => /\ last.outcome = "noop"
     /\ peaks = last.peaks
     /\ tp.interp.z = last.z
     /\ last.block = <<>>

C5_Witness ==
  /\ last.outcome = "noop"
  /\ calls = MaxCalls
  /\ Len(last.src) > 0
  /\ \E c \in 1..Len(peaks) : peaks[c] > 0
  /\ ~ZeroHistory

\* ---------------------------------------------------------------- C6
\* C6 as stated: processing the same window a second time leaves peaks as
\* the first call left them.
C6_Idempotent ==
  (last.again /\ last.outcome = "done") => peaks = last.peaks

\* C6 amended: the second call never lowers peaks, and leaves them as the
\* first call left them whenever the interpolator yields the same
\* oversampled block as in the first call.
C6_IdempotentOnSameBlock ==
  (last.again /\ last.outcome = "done") =>
    /\ \A c \in 1..Len(peaks) : peaks[c] >= last.peaks[c]
    /\ last.block = last.block_prev => peaks = last.peaks

C6_Witness ==
  /\ last.again
  /\ last.outcome = "done"
  /\ last.block = last.block_prev
  /\ \E k \in 1..Len(last.block) : last.block[k] > 0
  /\ \E c \in 1..Len(peaks) : peaks[c] > 0

\* ---------------------------------------------------------------- C7
\* C7 as stated: an accepted call on an all-zero window leaves every element
\* of peaks as it was on entry.
C7_ZeroWindowUnchanged ==
  (Accepted /\ ZeroWindow) => peaks = last.peaks

\* C7 amended: when the interpolator's delay lines hold only zeros on entry,
\* an accepted call on an all-zero window leaves every non-negative element
\* of peaks as it was, and with frames > 0 raises every negative one to 0.
C7_ZeroWindowZeroHistory ==
  (Accepted /\ ZeroWindow /\ ZeroHistory) =>
    \A c \in 1..Len(peaks) :
       /\ last.peaks[c] >= 0 => peaks[c] = last.peaks[c]
       /\ (last.peaks[c] < 0 /\ last.frames > 0) => peaks[c] = 0

C7_Witness ==
  /\ last.outcome = "done"
  /\ ZeroWindow
  /\ ZeroHistory
  /\ calls = MaxCalls
  /\ \E c \in 1..Len(peaks) : last.peaks[c] > 0

\* ---------------------------------------------------------------- C8
\* the last source with channel j's segment (j from 0) replaced by zeros
ZeroedChannel(j) ==
  [i \in 1..Len(last.src) |->
     IF i > j * LastStride /\ i <= (j + 1) * LastStride THEN 0 ELSE last.src[i]]

\* the peaks the last call would have left, had it been given src
PeaksOn(src) ==
  Scan(InterpOut([factor |-> tp.interp.factor, z |-> last.z], src, tp.channels,
                 last.src_index, last.frames),
       LastChunk, last.peaks)

\* C8: the peak of channel i after a call does not depend on the content of
\* another channel j's segment of the source. Two sources that differ only
\* in channel j's segment become the same source once that segment is
\* zeroed, so it is enough that zeroing it leaves every other peak as the
\* call left it, for every source and every state the call can start from.
C8_ChannelIsolation ==
  last.outcome = "done" =>
    \A j \in 0..(tp.channels - 1) :
       LET alt == PeaksOn(ZeroedChannel(j))
       IN  \A i \in 1..tp.channels : i # j + 1 => alt[i] = peaks[i]

\* the content of channel 0 decides its own peak and no other
C8_Witness ==
  /\ last.outcome = "done"
  /\ tp.channels >= 2
  /\ peaks[1] # peaks[2]
  /\ PeaksOn(ZeroedChannel(0))[1] # peaks[1]
  /\ PeaksOn(ZeroedChannel(1))[2] # peaks[2]

\* ---------------------------------------------------------------- C9
\* C9: after a call that ran the scan, each peaks[c] is the signed maximum
\* of its value on entry and the values of channel c's sub-block.
C9_SignedMaximum ==
  last.outcome = "done" =>
    \A c \in 1..tp.channels :
       /\ peaks[c] >= last.peaks[c]
       /\ \A k \in 1..LastChunk : peaks[c] >= SubBlock(c)[k]
       /\ \/ peaks[c] = last.peaks[c]
          \/ \E k \in 1..LastChunk : peaks[c] = SubBlock(c)[k]

\* a sub-block entirely below a zero accumulator leaves it at zero
C9_Witness ==
  /\ last.outcome = "done"
  /\ last.peaks[1] = 0
  /\ \A k \in 1..LastChunk : SubBlock(1)[k] < 0
  /\ peaks[1] = 0

\* --------------------------------------------------------------- C10
\* C10: a call that passes the three assertions finds the scratch buffer at
\* least stride * channels * factor long, so the region handed to the
\* interpolator lies inside it.
C10_RegionInsideScratch ==
  (Called /\ last.outcome \notin {"assert58", "assert59", "assert60"}) =>
    /\ tp.buffer_output >= LastStride * tp.channels * tp.interp.factor
    /\ last.frames * tp.channels * tp.interp.factor <= tp.buffer_output

====
